---- MODULE Spec2Model ----
(***************************************************************************)
(* Model of the offline-shell service worker, freqshift_pwa/static/sw.js. *)
(*                                                                         *)
(* One deployed version of the script is a worker w whose CACHE_NAME is    *)
(* the generation identifier of that deploy.  The cache storage of the     *)
(* origin (the global `caches`) is shared by all workers.  Every promise   *)
(* step of a handler is one action, so that other events interleave with   *)
(* a handler exactly where the code yields.                                *)
(*                                                                         *)
(* Host assumptions (service worker lifecycle): a deploy starts installing *)
(* only when no other worker is installing, waiting or activating; the     *)
(* script never calls skipWaiting, so a waiting worker is activated only   *)
(* once the active worker has no event with an unsettled respondWith;      *)
(* fetch events are delivered to the activated worker only.  Work that a   *)
(* handler started without waitUntil (the opportunistic cache write) may   *)
(* still run after its worker was superseded, or never run at all (the     *)
(* host may terminate the worker: a pending step is never forced).         *)
(***************************************************************************)
EXTENDS Integers, Sequences, FiniteSets, TLC

(* ------------------------------ bounds --------------------------------- *)
MaxGen == 2
MaxEvents == 2

Workers == 1..MaxGen
Events == 1..MaxEvents

(* ------------------------------ requests ------------------------------- *)
SelfOrigin == "https://freqshift.example"
OtherOrigin == "https://cdn.example"

\* sw.js lines 7-12 (paths relative to the worker's own origin).
APP_SHELL ==
  << "/",
     "/manifest.webmanifest",
     "/static/icons/icon-192.png",
     "/static/icons/icon-512.png" >>

ShellUrls == {APP_SHELL[i] : i \in 1..Len(APP_SHELL)}

ScriptUrl == "/static/app.js"
ResultUrl == "/result/abc123"
DownloadUrl == "https://cdn.example/download/out.wav"
CdnUrl == "https://cdn.example/lib.js"

\* The requests fetch events are drawn from, and all URLs of the model.
Req(m, u) == [method |-> m, url |-> u]
Requests ==
  { Req("GET", APP_SHELL[1]), Req("GET", ScriptUrl), Req("POST", ScriptUrl),
    Req("GET", ResultUrl), Req("POST", DownloadUrl), Req("GET", CdnUrl) }
Urls == ShellUrls \cup {r.url : r \in Requests}

\* new URL(event.request.url): the origin and the pathname of a URL; the
\* pathname "/a/b" is the sequence of its segments <<"a","b">>, "/" is <<"">>.
ParseUrl(u) ==
  CASE u = "/" -> [origin |-> SelfOrigin, pathname |-> <<"">>]
    [] u = "/manifest.webmanifest" ->
         [origin |-> SelfOrigin, pathname |-> <<"manifest.webmanifest">>]
    [] u = "/static/icons/icon-192.png" ->
         [origin |-> SelfOrigin, pathname |-> <<"static", "icons", "icon-192.png">>]
    [] u = "/static/icons/icon-512.png" ->
         [origin |-> SelfOrigin, pathname |-> <<"static", "icons", "icon-512.png">>]
    [] u = ScriptUrl -> [origin |-> SelfOrigin, pathname |-> <<"static", "app.js">>]
    [] u = ResultUrl -> [origin |-> SelfOrigin, pathname |-> <<"result", "abc123">>]
    [] u = DownloadUrl -> [origin |-> OtherOrigin, pathname |-> <<"download", "out.wav">>]
    [] u = CdnUrl -> [origin |-> OtherOrigin, pathname |-> <<"lib.js">>]

\* String.prototype.startsWith on the pathname, for a prefix "/seg/".
StartsWith(pathname, seg) == Len(pathname) >= 2 /\ pathname[1] = seg

\* Fault variants of the prefix test: one of the two prefixes is forgotten.
IsDynamicResultOnly(url) == StartsWith(ParseUrl(url).pathname, "result")
IsDynamicDownloadOnly(url) == StartsWith(ParseUrl(url).pathname, "download")

\* sw.js line 28: the reserved dynamic-result prefixes.
IsDynamic(url) ==
  \/ StartsWith(ParseUrl(url).pathname, "result")
  \/ StartsWith(ParseUrl(url).pathname, "download")

\* Fault variant: the origin test of the opportunistic write is forgotten.
ShouldCacheAnyOrigin(method, url) == method = "GET"

\* sw.js line 38: the condition of the opportunistic cache write.
ShouldCache(method, url) == method = "GET" /\ ParseUrl(url).origin = SelfOrigin

\* sw.js line 6: the generation identifier of the deploy that worker w runs
\* ("freqshift-pwa-v<w>").
CACHE_NAME(w) == w

\* The generation deployed before the first worker of the model, whose store
\* may still exist at the start, and the names a store can have.
StaleGen == CACHE_NAME(1) - 1
Names == {StaleGen} \cup {CACHE_NAME(w) : w \in Workers}

(* ------------------------------ responses ------------------------------ *)
NoResp == [payload |-> 0, status |-> 0]
NetworkError == [payload |-> 0, status |-> -1]
Statuses == {200, 404}
IsResp(r) == r.status \in Statuses

VARIABLES
  cacheNames,   \* the names of the existing cache stores, in creation order
  store,        \* store[n][u]: the response stored under u in store n
  wstate,       \* lifecycle position of each worker
  toDelete,     \* activate: the deletions issued and not yet resolved
  ev,           \* the fetch events, in order of dispatch
  nEvents       \* number of fetch events dispatched so far

vars == <<cacheNames, store, wstate, toDelete, ev, nEvents>>

\* The network serves a different payload on every call: the call made for
\* fetch event i serves payload i, the calls of the install of generation n
\* serve ShellPayload(n).
ShellPayload(n) == 100 + n

EmptyStore == [u \in Urls |-> NoResp]
ShellStore(p) ==
  [u \in Urls |-> IF u \in ShellUrls THEN [payload |-> p, status |-> 200]
                  ELSE NoResp]

IdleEvent ==
  [w |-> 0, method |-> "GET", url |-> APP_SHELL[1], pc |-> "idle",
   branch |-> "none", net |-> NoResp, result |-> NoResp, write |-> "none",
   nNet |-> 0, nRead |-> 0]

ExistsIn(names, n) == \E i \in 1..Len(names) : names[i] = n
Exists(n) == ExistsIn(cacheNames, n)

Remove(seq, n) == SelectSeq(seq, LAMBDA x : x # n)

Busy(w) == wstate[w] \in {"installing", "installed", "activating"}
IsActive(w) == wstate[w] \in {"activating", "activated"}

Init ==
  /\ \/ cacheNames = <<>> /\ store = [n \in Names |-> EmptyStore]
     \/ /\ cacheNames = <<StaleGen>>
        /\ store = [n \in Names |-> IF n = StaleGen THEN ShellStore(ShellPayload(StaleGen))
                                    ELSE EmptyStore]
  /\ wstate = [w \in Workers |-> "parsed"]
  /\ toDelete = [w \in Workers |-> {}]
  /\ ev = [e \in Events |-> IdleEvent]
  /\ nEvents = 0

(* ------------------------------ install -------------------------------- *)
\* caches.open(name): the store is created when it does not exist.
OpenNames(names, n) == IF ExistsIn(names, n) THEN names ELSE Append(names, n)

\* A deploy: the host delivers the install event to the next worker; the
\* handler calls caches.open(CACHE_NAME) inside event.waitUntil, and the
\* store is open when cache.addAll starts.
Install(w) ==
  /\ wstate[w] = "parsed"
  /\ \A v \in Workers : v < w => wstate[v] # "parsed"
  /\ \A v \in Workers : ~Busy(v)
  /\ cacheNames' = OpenNames(cacheNames, CACHE_NAME(w))
  /\ wstate' = [wstate EXCEPT ![w] = "installing"]
  /\ UNCHANGED <<store, toDelete, ev, nEvents>>

\* Fault variant: every entry is committed as soon as its own fetch succeeded.
AddAllPartial(st, fetched, p) ==
  [u \in Urls |-> IF u \in ShellUrls /\ fetched[u] = "ok"
                  THEN [payload |-> p, status |-> 200] ELSE st[u]]

\* Fault variant: the icons are left out of the shell.
AddAllNoIcons(st, fetched, p) ==
  IF \A u \in ShellUrls : fetched[u] = "ok"
  THEN [u \in Urls |-> IF u \in {APP_SHELL[1], APP_SHELL[2]}
                       THEN [payload |-> p, status |-> 200] ELSE st[u]]
  ELSE st

\* cache.addAll(APP_SHELL): every URL is fetched; the entries are committed
\* together only if every fetch produced an ok response, else none is.
AddAll(st, fetched, p) ==
  IF \A u \in ShellUrls : fetched[u] = "ok"
  THEN [u \in Urls |-> IF u \in ShellUrls THEN [payload |-> p, status |-> 200]
                       ELSE st[u]]
  ELSE st

\* cache.addAll settles and with it the waitUntil promise: the worker is
\* installed if it resolved, and discarded if it rejected.
InstallAddAll(w, fetched) ==
  /\ wstate[w] = "installing"
  /\ store' = [store EXCEPT ![CACHE_NAME(w)] =
                 AddAll(@, fetched, ShellPayload(CACHE_NAME(w)))]
  /\ wstate' = [wstate EXCEPT ![w] =
       IF \A u \in ShellUrls : fetched[u] = "ok" THEN "installed" ELSE "failed"]
  /\ UNCHANGED <<cacheNames, toDelete, ev, nEvents>>

(* ------------------------------ activate ------------------------------- *)
NoPendingRespond(w) ==
  \A e \in Events : ev[e].w = w => ev[e].pc \in {"idle", "done"}

\* Fault variant: only the oldest stale store is selected for deletion.
StaleKeysOldest(names, w) ==
  LET stale == SelectSeq(names, LAMBDA k : k # CACHE_NAME(w))
  IN  IF stale = <<>> THEN {} ELSE {Head(stale)}

\* Fault variant: the filter is left out and every store is selected.
StaleKeysAll(names, w) == {names[i] : i \in 1..Len(names)}

\* keys.filter((k) => k !== CACHE_NAME)
StaleKeys(names, w) ==
  {names[i] : i \in 1..Len(names)} \ {CACHE_NAME(w)}

\* The host activates the waiting worker: the active worker, if any, is
\* made redundant and the activate event is delivered; caches.keys()
\* resolves and caches.delete(k) is issued for every stale key.
Activate(w) ==
  /\ wstate[w] = "installed"
  /\ \A v \in Workers : IsActive(v) => wstate[v] = "activated" /\ NoPendingRespond(v)
  /\ wstate' = [v \in Workers |->
       IF v = w THEN "activating"
       ELSE IF IsActive(v) THEN "redundant" ELSE wstate[v]]
  /\ toDelete' = [toDelete EXCEPT ![w] = StaleKeys(cacheNames, w)]
  /\ UNCHANGED <<cacheNames, store, ev, nEvents>>

\* A handle on a store that is deleted keeps working but is detached from
\* the cache storage: a put through it is not visible to any lookup.
Detach(e, n) ==
  IF e.write = "put" /\ CACHE_NAME(e.w) = n THEN [e EXCEPT !.write = "detached"]
  ELSE e

\* One caches.delete(k) resolves.
ActivateDelete(w, k) ==
  /\ wstate[w] = "activating"
  /\ k \in toDelete[w]
  /\ cacheNames' = Remove(cacheNames, k)
  /\ store' = [store EXCEPT ![k] = EmptyStore]
  /\ ev' = [e \in Events |-> Detach(ev[e], k)]
  /\ toDelete' = [toDelete EXCEPT ![w] = @ \ {k}]
  /\ UNCHANGED <<wstate, nEvents>>

\* Fault variant: the deletions are not passed to event.waitUntil, so activation
\* completes without waiting for them.
ActivateDoneEarly(w) ==
  /\ wstate[w] = "activating"
  /\ wstate' = [wstate EXCEPT ![w] = "activated"]
  /\ UNCHANGED <<cacheNames, store, toDelete, ev, nEvents>>

\* Promise.all resolves: the waitUntil promise settles, activation completes.
ActivateDone(w) ==
  /\ wstate[w] = "activating"
  /\ toDelete[w] = {}
  /\ wstate' = [wstate EXCEPT ![w] = "activated"]
  /\ UNCHANGED <<cacheNames, store, toDelete, ev, nEvents>>

(* ------------------------------- fetch --------------------------------- *)
\* The synchronous part of the fetch listener: the request is classified by
\* its pathname; a reserved path goes straight to the network (bypass), any
\* other starts with a lookup in the cache storage (cacheFirst).
OnFetch(w, method, url) ==
  [IdleEvent EXCEPT !.w = w, !.method = method, !.url = url,
     !.branch = IF IsDynamic(url) THEN "bypass" ELSE "cacheFirst",
     !.pc = IF IsDynamic(url) THEN "net" ELSE "match"]

FetchDispatch(w, method, url) ==
  /\ wstate[w] = "activated"
  /\ nEvents < MaxEvents
  /\ nEvents' = nEvents + 1
  /\ ev' = [ev EXCEPT ![nEvents + 1] = OnFetch(w, method, url)]
  /\ UNCHANGED <<cacheNames, store, wstate, toDelete>>

\* caches.match(request): the stores are searched in creation order and the
\* first entry under the request's URL is the result; a request whose
\* method is not GET matches nothing.
RECURSIVE Match(_, _, _, _)
Match(names, st, method, url) ==
  IF method # "GET" \/ names = <<>> THEN NoResp
  ELSE IF IsResp(st[Head(names)][url]) THEN st[Head(names)][url]
  ELSE Match(Tail(names), st, method, url)

\* Fault variant: the cached response is ignored and the network is always used.
OnMatchNetworkFirst(e, cached) == [e EXCEPT !.nRead = @ + 1, !.pc = "net"]

\* Fault variant: a cached response is returned and refreshed from the network.
OnMatchRevalidate(e, cached) ==
  IF IsResp(cached)
  THEN [e EXCEPT !.nRead = @ + 1, !.nNet = @ + 1, !.result = cached, !.pc = "done"]
  ELSE [e EXCEPT !.nRead = @ + 1, !.pc = "net"]

\* Fault variant: a cached response is returned and written back to the store.
OnMatchRefresh(e, cached) ==
  IF IsResp(cached)
  THEN [e EXCEPT !.nRead = @ + 1, !.result = cached, !.net = cached,
                 !.write = "open", !.pc = "done"]
  ELSE [e EXCEPT !.nRead = @ + 1, !.pc = "net"]

\* .then((cached) => { if (cached) return cached; return fetch(...) })
OnMatch(e, cached) ==
  IF IsResp(cached)
  THEN [e EXCEPT !.nRead = @ + 1, !.result = cached, !.pc = "done"]
  ELSE [e EXCEPT !.nRead = @ + 1, !.pc = "net"]

MatchResolve(i) ==
  /\ ev[i].pc = "match"
  /\ ev' = [ev EXCEPT ![i] = OnMatch(@, Match(cacheNames, store, @.method, @.url))]
  /\ UNCHANGED <<cacheNames, store, wstate, toDelete, nEvents>>

\* Fault variant: only a response with status 200 is handed to the write.
OnResponseOkOnly(e, response) ==
  [e EXCEPT !.nNet = @ + 1, !.net = response, !.result = response, !.pc = "done",
     !.write = IF e.branch = "cacheFirst" /\ ShouldCache(e.method, e.url)
                  /\ response.status = 200
               THEN "open" ELSE "none"]

\* fetch(event.request) resolves with a response.  On the bypass branch the
\* response is the result; on the cacheFirst branch a copy is handed to the
\* opportunistic write when the request is a same-origin GET, and the
\* response is returned without waiting for that write.
OnResponse(e, response) ==
  [e EXCEPT !.nNet = @ + 1, !.net = response, !.result = response, !.pc = "done",
     !.write = IF e.branch = "cacheFirst" /\ ShouldCache(e.method, e.url)
               THEN "open" ELSE "none"]

NetResolve(i, status) ==
  /\ ev[i].pc = "net"
  /\ ev' = [ev EXCEPT ![i] = OnResponse(@, [payload |-> i, status |-> status])]
  /\ UNCHANGED <<cacheNames, store, wstate, toDelete, nEvents>>

\* Fault variant: a failed fetch is retried once and then answered with a fallback.
OnNetworkErrorRetry(e) ==
  [e EXCEPT !.nNet = @ + 2, !.net = NetworkError,
     !.result = [payload |-> 0, status |-> 404], !.pc = "done"]

\* fetch(event.request) rejects: the rejection is the result of respondWith.
OnNetworkError(e) ==
  [e EXCEPT !.nNet = @ + 1, !.net = NetworkError, !.result = NetworkError,
     !.pc = "done"]

NetFail(i) ==
  /\ ev[i].pc = "net"
  /\ ev' = [ev EXCEPT ![i] = OnNetworkError(@)]
  /\ UNCHANGED <<cacheNames, store, wstate, toDelete, nEvents>>

\* Fault variant: the store name carries no generation, every worker writes
\* into the store of the first one.
WriteTargetShared(e) == CACHE_NAME(1)

\* The store the opportunistic write of event e opens: caches.open(CACHE_NAME).
WriteTarget(e) == CACHE_NAME(e.w)

\* caches.open(CACHE_NAME) of the opportunistic write resolves.
WriteOpen(i) ==
  /\ ev[i].write = "open"
  /\ cacheNames' = OpenNames(cacheNames, WriteTarget(ev[i]))
  /\ ev' = [ev EXCEPT ![i].write = "put"]
  /\ UNCHANGED <<store, wstate, toDelete, nEvents>>

\* Fault variant: an entry already stored under the URL is kept.
PutIfAbsent(st, e) == IF IsResp(st[e.url]) THEN st ELSE [st EXCEPT ![e.url] = e.net]

\* cache.put(request, copy): the copy of the network response is stored
\* under the request's URL, replacing the entry there.
Put(st, e) == [st EXCEPT ![e.url] = e.net]

WritePut(i) ==
  /\ ev[i].write = "put"
  /\ store' = [store EXCEPT ![WriteTarget(ev[i])] = Put(@, ev[i])]
  /\ ev' = [ev EXCEPT ![i].write = "stored"]
  /\ UNCHANGED <<cacheNames, wstate, toDelete, nEvents>>

\* cache.put through a handle whose store was deleted meanwhile.
WritePutDetached(i) ==
  /\ ev[i].write = "detached"
  /\ ev' = [ev EXCEPT ![i].write = "lost"]
  /\ UNCHANGED <<cacheNames, store, wstate, toDelete, nEvents>>

\* Fault variant: the write is chained into the respondWith promise, so that its
\* rejection becomes the result of the event.
OnWriteFailureFatal(e) == [e EXCEPT !.write = "failed", !.result = NetworkError]

\* The promise chain of the write has no handler for a rejection and is not
\* part of the respondWith promise: a failure ends the write and nothing else.
OnWriteFailure(e) == [e EXCEPT !.write = "failed"]

\* caches.open or cache.put rejects (storage quota, storage error, a
\* response that cache.put refuses).
WriteFail(i) ==
  /\ ev[i].write \in {"open", "put", "detached"}
  /\ ev' = [ev EXCEPT ![i] = OnWriteFailure(@)]
  /\ UNCHANGED <<cacheNames, store, wstate, toDelete, nEvents>>

Next ==
  \/ \E w \in Workers : Install(w)
  \/ \E w \in Workers : \E f \in [ShellUrls -> {"ok", "fail"}] : InstallAddAll(w, f)
  \/ \E w \in Workers : Activate(w)
  \/ \E w \in Workers : \E k \in Names : ActivateDelete(w, k)
  \/ \E w \in Workers : ActivateDone(w)
  \/ \E w \in Workers : \E r \in Requests : FetchDispatch(w, r.method, r.url)
  \/ \E i \in Events : MatchResolve(i)
  \/ \E i \in Events : \E status \in Statuses : NetResolve(i, status)
  \/ \E i \in Events : NetFail(i)
  \/ \E i \in Events : WriteOpen(i)
  \/ \E i \in Events : WritePut(i)
  \/ \E i \in Events : WritePutDetached(i)
  \/ \E i \in Events : WriteFail(i)

Spec == Init /\ [][Next]_vars

(* ------------------------------- claims -------------------------------- *)
\* The URLs of the model whose path begins with "/result/" or "/download/".
ReservedUrls == {ResultUrl, DownloadUrl}

Done(i) == ev[i].pc = "done"
Answered(i) == Done(i) /\ IsResp(ev[i].result)

\* C1: a fetch event for a path under /result/ or /download/ (any method,
\* any origin, any cache contents) reads no cache store, starts no cache
\* write, makes exactly one network fetch and answers with its result; the
\* network payload of call i is i, so two successive requests for the same
\* URL are answered with their own payloads, P1 then P2.
C1_ReservedAlwaysLive ==
  \A i \in Events :
    (ev[i].pc # "idle" /\ ev[i].url \in ReservedUrls) =>
      /\ ev[i].nRead = 0
      /\ ev[i].write = "none"
      /\ ev[i].pc \in {"net", "done"}
      /\ ev[i].pc = "net" => ev[i].nNet = 0
      /\ Done(i) => /\ ev[i].nNet = 1
                    /\ ev[i].result = ev[i].net
                    /\ IsResp(ev[i].net) => ev[i].net.payload = i

\* Two requests for /result/abc123, the second made over a non-empty cache:
\* answered with payloads 1 and 2.
C1_Witness ==
  /\ MaxEvents >= 2
  /\ ev[1].url = ResultUrl /\ ev[2].url = ResultUrl
  /\ Answered(1) /\ Answered(2)
  /\ ev[1].result.payload = 1 /\ ev[2].result.payload = 2
  /\ cacheNames # <<>>

C3_OneStoreAtActivation ==
  [][\A w \in Workers :
       (wstate[w] = "activating" /\ wstate'[w] = "activated") =>
         cacheNames' = <<CACHE_NAME(w)>>]_vars

\* C4: after a successful install, the store named CACHE_NAME exists and a
\* lookup for each of the four app-shell keys finds a stored response.
C4_ShellStoredAfterInstall ==
  \A w \in Workers :
    wstate[w] = "installed" =>
      /\ Exists(CACHE_NAME(w))
      /\ \A k \in 1..Len(APP_SHELL) :
           /\ IsResp(store[CACHE_NAME(w)][APP_SHELL[k]])
           /\ Match(<<CACHE_NAME(w)>>, store, "GET", APP_SHELL[k])
                = [payload |-> ShellPayload(CACHE_NAME(w)), status |-> 200]

C4_Witness ==
  \E w \in Workers : wstate[w] = "installed" /\ Len(cacheNames) >= 2

\* C5 (as stated): once a same-origin GET for a non-reserved path has been
\* answered from the network, the response is stored under the request key,
\* so that a second event for the key, whenever it comes, is answered with
\* the stored response and no network fetch.
C5_SecondServedFromCache ==
  \A i \in Events :
    ( /\ ev[i].method = "GET" /\ ev[i].url = ScriptUrl
      /\ Answered(i) /\ ev[i].nNet = 1
      /\ wstate[ev[i].w] = "activated" ) =>
    Match(cacheNames, store, "GET", ev[i].url) = ev[i].net

\* C5 (amended): a cache-first event makes at most one network fetch; the
\* opportunistic write, when it succeeds, follows exactly one network fetch
\* and leaves that response stored under the request key; and a lookup made
\* while an existing store holds the key is answered with a stored response
\* and no network fetch.
C5_HitAfterStoredWrite ==
  [][/\ \A i \in Events :
          /\ ev'[i].nNet <= 1
          /\ (ev'[i].pc = "done" /\ ev'[i].net # NoResp) => ev'[i].nNet = 1
          /\ (ev[i].write = "put" /\ ev'[i].write = "stored") =>
               /\ ev[i].nNet = 1
               /\ store'[CACHE_NAME(ev[i].w)][ev[i].url] = ev[i].net
               /\ Match(cacheNames', store', "GET", ev[i].url) # NoResp
     /\ \A j \in Events :
          ( /\ ev[j].pc = "match" /\ ev'[j].pc # "match"
            /\ ev[j].method = "GET"
            /\ \E n \in Names : Exists(n) /\ IsResp(store[n][ev[j].url]) ) =>
          ( /\ ev'[j].pc = "done" /\ ev'[j].nNet = 0
            /\ \E n \in Names : Exists(n) /\ ev'[j].result = store[n][ev[j].url] )]_vars

\* The second request for /static/app.js is answered from the entry the
\* first one stored.
C5_Witness ==
  /\ MaxEvents >= 2
  /\ ev[1].url = ScriptUrl /\ ev[2].url = ScriptUrl
  /\ ev[1].write = "stored" /\ ev[1].nNet = 1
  /\ Done(2) /\ ev[2].nNet = 0 /\ ev[2].result = ev[1].net

\* The URLs of the model on another origin than the worker's.
CrossOriginUrls == {DownloadUrl, CdnUrl}

\* C6: the response to a cross-origin or non-GET request is returned to the
\* caller and starts no cache write; every write of the fetch handler is
\* for a GET request to the worker's own origin, and no store holds a
\* cross-origin key.
C6_OnlySameOriginGetStored ==
  /\ \A i \in Events :
       /\ ev[i].write # "none" =>
            ev[i].method = "GET" /\ ev[i].url \notin CrossOriginUrls
       /\ (Done(i) /\ ev[i].nNet = 1
             /\ (ev[i].method # "GET" \/ ev[i].url \in CrossOriginUrls)) =>
            ev[i].result = ev[i].net /\ ev[i].write = "none"
  /\ \A n \in Names : \A u \in CrossOriginUrls : store[n][u] = NoResp

\* A cross-origin GET and a same-origin POST were both answered 200.
C6_Witness ==
  /\ \E i \in Events : /\ ev[i].url = CdnUrl /\ ev[i].method = "GET"
                       /\ Answered(i) /\ ev[i].result.status = 200
  /\ \E i \in Events : /\ ev[i].url = ScriptUrl /\ ev[i].method = "POST"
                       /\ Answered(i) /\ ev[i].result.status = 200

\* C7: an install settles all-or-nothing.  The step that settles it either
\* leaves the worker installed with all four app-shell entries stored, or
\* leaves it discarded with every store unchanged; and a worker whose
\* install failed is never installed or activated and its CACHE_NAME store
\* holds none of the app-shell entries.
C7_InstallAllOrNothing ==
  /\ [](\A w \in Workers :
          wstate[w] = "failed" =>
            \A u \in ShellUrls : store[CACHE_NAME(w)][u] = NoResp)
  /\ [][\A w \in Workers :
          /\ (wstate[w] = "installing" /\ wstate'[w] # "installing") =>
               \/ /\ wstate'[w] = "installed"
                  /\ \A u \in ShellUrls : IsResp(store'[CACHE_NAME(w)][u])
               \/ /\ wstate'[w] = "failed"
                  /\ store' = store /\ cacheNames' = cacheNames
          /\ wstate[w] = "failed" => wstate'[w] = "failed"]_vars

\* An install failed and left its (empty) store behind.
C7_Witness ==
  \E w \in Workers : wstate[w] = "failed" /\ Exists(CACHE_NAME(w))

\* C8: whenever the opportunistic write is pending, has failed or was lost,
\* the event is already answered with the network response: the answer
\* neither waits for the write nor changes with its outcome.
C8_WriteFailureNotFatal ==
  \A i \in Events :
    ev[i].write # "none" =>
      /\ Done(i)
      /\ IsResp(ev[i].net)
      /\ ev[i].result = ev[i].net

C8_Witness ==
  \E i \in Events : ev[i].write = "failed" /\ Answered(i) /\ ev[i].net.status = 200

\* C9: a cache-first event whose network fetch failed is answered with that
\* failure, after exactly one network attempt, and starts no cache write.
C9_NetworkFailurePropagates ==
  \A i \in Events :
    (ev[i].branch = "cacheFirst" /\ ev[i].net = NetworkError) =>
      /\ Done(i)
      /\ ev[i].result = NetworkError
      /\ ev[i].nNet = 1
      /\ ev[i].nRead = 1
      /\ ev[i].write = "none"

C9_Witness ==
  \E i \in Events :
    ev[i].branch = "cacheFirst" /\ ev[i].net = NetworkError /\ ev[i].url = ScriptUrl

\* C10: in every state after the activate of the current generation has
\* completed and before a newer generation installs, at most one cache
\* store exists.
C10_AtMostOneStoreAfterActivation ==
  \A w \in Workers :
    ( /\ wstate[w] = "activated"
      /\ \A v \in Workers : v > w => wstate[v] = "parsed" ) =>
    Len(cacheNames) <= 1

\* C11: a cache-first event is answered from the cache only with the entry
\* that the store named by its worker's own CACHE_NAME holds under the
\* request key; an entry held only by another generation's store is never
\* served.
C11_LookupInOwnStoreOnly ==
  [][\A j \in Events :
       ( /\ ev[j].pc = "match" /\ ev'[j].pc = "done" ) =>
       ( /\ Exists(CACHE_NAME(ev[j].w))
         /\ IsResp(store[CACHE_NAME(ev[j].w)][ev[j].url])
         /\ ev'[j].result = store[CACHE_NAME(ev[j].w)][ev[j].url] )]_vars

\* C12: when the lookup of a cache-first event finds a response (a cache
\* hit), the event is answered with that response in the same step, without
\* any network fetch, and an answered event never fetches afterwards; so the
\* answer does not depend on the network being reachable.
C12_HitWithoutNetwork ==
  [][\A j \in Events :
       /\ ( /\ ev[j].pc = "match" /\ ev'[j] # ev[j]
            /\ IsResp(Match(cacheNames, store, ev[j].method, ev[j].url)) ) =>
          ( /\ ev'[j].pc = "done"
            /\ ev'[j].result = Match(cacheNames, store, ev[j].method, ev[j].url)
            /\ ev'[j].nNet = 0
            /\ ev'[j].net = NoResp )
       /\ ev[j].pc = "done" =>
          ( /\ ev'[j].pc = "done"
            /\ ev'[j].nNet = ev[j].nNet
            /\ ev'[j].result = ev[j].result )]_vars

\* The network is down (a miss failed with a network error) and a later GET
\* for "/" is answered from the shell entry without a network fetch.
C12_Witness ==
  /\ MaxEvents >= 2
  /\ ev[1].net = NetworkError
  /\ ev[2].url = APP_SHELL[1] /\ Done(2) /\ ev[2].nNet = 0
  /\ ev[2].result = [payload |-> ShellPayload(CACHE_NAME(ev[2].w)), status |-> 200]

\* The opportunistic write of event i has been started and has not settled.
WritePending(i) == ev[i].write \in {"open", "put", "detached"}

\* C13 (as stated): no two fetch events of one worker have an opportunistic
\* write for the same request key (method and URL) pending at the same time.
C13_NoTwoPendingWritesSameKey ==
  \A i, j \in Events :
    ( /\ i # j /\ WritePending(i) /\ WritePending(j)
      /\ ev[i].w = ev[j].w /\ ev[i].method = ev[j].method ) =>
    ev[i].url # ev[j].url

\* C13 (amended): writes for one key may be pending together; each put
\* replaces the entry under its key as a whole and touches nothing else, so
\* a key holds one response, that of the write that resolved last, and every
\* entry is either a shell entry of install or the network response of an
\* event whose write was stored.
C13_LastWriteWins ==
  /\ [](\A n \in Names : \A u \in Urls :
          IsResp(store[n][u]) =>
            \/ u \in ShellUrls /\ store[n][u] = [payload |-> ShellPayload(n), status |-> 200]
            \/ \E i \in Events : /\ ev[i].write = "stored" /\ WriteTarget(ev[i]) = n
                                 /\ ev[i].url = u /\ ev[i].net = store[n][u])
  /\ [][\A i \in Events :
          (ev[i].write = "put" /\ ev'[i].write = "stored") =>
            \A n \in Names : \A u \in Urls :
              store'[n][u] = IF n = WriteTarget(ev[i]) /\ u = ev[i].url
                             THEN ev[i].net ELSE store[n][u]]_vars

\* Two events of one worker both missed GET /static/app.js, both writes were
\* stored, and the store holds the response of one and not of the other.
C13_Witness ==
  \E i, j \in Events :
    /\ i # j /\ ev[i].w = ev[j].w
    /\ ev[i].url = ScriptUrl /\ ev[j].url = ScriptUrl
    /\ ev[i].write = "stored" /\ ev[j].write = "stored"
    /\ ev[i].net # ev[j].net
    /\ store[WriteTarget(ev[i])][ScriptUrl] = ev[i].net

\* Promise.all(keys.map((k) => caches.delete(k))): every store in ks is
\* deleted from the cache storage <<names, st>>.
RECURSIVE DeleteAll(_, _, _)
DeleteAll(names, st, ks) ==
  IF ks = {} THEN [names |-> names, store |-> st]
  ELSE LET k == CHOOSE x \in ks : TRUE
       IN  DeleteAll(Remove(names, k), [st EXCEPT ![k] = EmptyStore], ks \ {k})

\* The activate handler of worker w run to completion on the cache storage
\* <<names, st>> with nothing else running.
ActivateAll(names, st, w) == DeleteAll(names, st, StaleKeys(names, w))

\* C14: on every reachable cache storage and for every worker, a second run
\* of activate leaves the stores and their contents as the first run left
\* them, and a run with no stale store present changes nothing; an
\* activate event delivered when no stale store exists has nothing to
\* delete and leaves the cache storage as it is.
C14_ActivateIdempotent ==
  /\ [](\A w \in Workers :
          LET once == ActivateAll(cacheNames, store, w)
          IN  /\ ActivateAll(once.names, once.store, w) = once
              /\ StaleKeys(once.names, w) = {}
              /\ StaleKeys(cacheNames, w) = {} =>
                   once = [names |-> cacheNames, store |-> store])
  /\ [][\A w \in Workers :
          ( /\ wstate[w] = "installed" /\ wstate'[w] = "activating"
            /\ StaleKeys(cacheNames, w) = {} ) =>
          ( /\ toDelete'[w] = {}
            /\ cacheNames' = cacheNames /\ store' = store )]_vars

\* Worker 2 has been activated over worker 1: its activate run deleted the
\* stale store 1, and its own store is the only one left.
C14_Witness ==
  /\ MaxGen >= 2
  /\ wstate[2] = "activated" /\ wstate[1] = "redundant"
  /\ cacheNames = <<CACHE_NAME(2)>>
  /\ ActivateAll(cacheNames, store, 2) = [names |-> cacheNames, store |-> store]

\* C15: each lifecycle transition waits for its pending operation.  A worker
\* becomes installed only in a step after which its store holds all four
\* shell entries.  The activate event takes every store with another name
\* that exists at its start as to be deleted; a store leaves that set only
\* by being deleted; the worker becomes activated only when the set is
\* empty; and a fetch event is dispatched only to an activated worker, so
\* no event is handled while a store of that set still exists.
C15_TransitionsWaitForPending ==
  /\ [](\A w \in Workers : wstate[w] = "activated" => toDelete[w] = {})
  /\ [](\A i \in Events :
          ev[i].pc # "idle" => wstate[ev[i].w] \in {"activated", "redundant"})
  /\ [][\A w \in Workers :
          /\ (wstate[w] = "installing" /\ wstate'[w] = "installed") =>
               /\ ExistsIn(cacheNames', CACHE_NAME(w))
               /\ \A u \in ShellUrls : IsResp(store'[CACHE_NAME(w)][u])
          /\ (wstate[w] = "installed" /\ wstate'[w] = "activating") =>
               toDelete'[w] = {k \in Names : k # CACHE_NAME(w) /\ Exists(k)}
          /\ \A k \in toDelete[w] \ toDelete'[w] :
               Exists(k) /\ ~ExistsIn(cacheNames', k) /\ store'[k] = EmptyStore
          /\ (wstate[w] = "activating" /\ wstate'[w] = "activated") =>
               toDelete[w] = {}
          /\ \A i \in Events :
               (ev[i].pc = "idle" /\ ev'[i].pc # "idle" /\ ev'[i].w = w) =>
                 wstate[w] = "activated" /\ toDelete[w] = {}]_vars

\* Worker 2 handles a fetch event after its activation deleted the store of
\* worker 1, which existed when the activation started.
C15_Witness ==
  /\ MaxGen >= 2
  /\ wstate[2] = "activated" /\ wstate[1] = "redundant"
  /\ ~Exists(CACHE_NAME(1))
  /\ \E i \in Events : ev[i].w = 2 /\ ev[i].pc # "idle"

\* C16: a step that changes the entries of a store n is either the install
\* of the worker whose CACHE_NAME is n (shell keys only), or the put of a
\* fetch event whose worker's CACHE_NAME is n (its request key only), or the
\* deletion of n as a whole by the activate of another generation; and a
\* store n is created only by the install or by the write of a worker whose
\* CACHE_NAME is n.
C16_WritesOnlyOwnStore ==
  [][\A n \in Names :
       /\ store'[n] # store[n] =>
            \/ \E w \in Workers :
                 /\ wstate[w] = "installing" /\ wstate'[w] = "installed"
                 /\ n = CACHE_NAME(w)
                 /\ \A u \in Urls \ ShellUrls : store'[n][u] = store[n][u]
            \/ \E i \in Events :
                 /\ ev[i].write = "put" /\ ev'[i].write = "stored"
                 /\ n = CACHE_NAME(ev[i].w)
                 /\ \A u \in Urls \ {ev[i].url} : store'[n][u] = store[n][u]
            \/ /\ \E w \in Workers :
                    wstate[w] = "activating" /\ n # CACHE_NAME(w) /\ n \in toDelete[w]
               /\ store'[n] = EmptyStore
               /\ ~ExistsIn(cacheNames', n)
       /\ (~Exists(n) /\ ExistsIn(cacheNames', n)) =>
            \/ \E w \in Workers :
                 wstate[w] = "parsed" /\ wstate'[w] = "installing" /\ n = CACHE_NAME(w)
            \/ \E i \in Events :
                 ev[i].write = "open" /\ ev'[i].write = "put" /\ n = CACHE_NAME(ev[i].w)]_vars

\* Worker 1 stored the response of a miss for /static/app.js in store 1 while
\* worker 2 is installed; store 2 holds its shell and no such entry.
C16_Witness ==
  /\ MaxGen >= 2
  /\ wstate[2] = "installed"
  /\ \E i \in Events :
       /\ ev[i].w = 1 /\ ev[i].url = ScriptUrl /\ ev[i].write = "stored"
       /\ store[CACHE_NAME(1)][ScriptUrl] = ev[i].net
  /\ store[CACHE_NAME(2)][ScriptUrl] = NoResp
  /\ \A u \in ShellUrls : IsResp(store[CACHE_NAME(2)][u])

\* The store named n exists and holds a response under every app-shell key.
ShellPresent(n) == Exists(n) /\ \A u \in ShellUrls : IsResp(store[n][u])

\* C17: from the end of its install, and so in every state in which worker w
\* is activated, the store named by its CACHE_NAME holds all four app-shell
\* keys; the shell stops being present there only in the step in which the
\* activate of a newer generation deletes the store; and every GET for an
\* app-shell URL handled by a worker is answered from the cache with a
\* response, without a network fetch and without a write.
C17_ShellAvailableOffline ==
  /\ [](\A w \in Workers :
          wstate[w] \in {"installed", "activating", "activated"} =>
            ShellPresent(CACHE_NAME(w)))
  /\ [](\A j \in Events :
          (ev[j].pc # "idle" /\ ev[j].method = "GET" /\ ev[j].url \in ShellUrls) =>
            /\ ev[j].pc \in {"match", "done"}
            /\ ev[j].nNet = 0 /\ ev[j].write = "none"
            /\ ev[j].pc = "match" =>
                 /\ wstate[ev[j].w] = "activated"
                 /\ IsResp(Match(cacheNames, store, ev[j].method, ev[j].url))
            /\ Done(j) => IsResp(ev[j].result) /\ ev[j].nRead = 1)
  /\ [][\A w \in Workers :
          ( /\ wstate[w] \in {"activated", "redundant"}
            /\ ShellPresent(CACHE_NAME(w))
            /\ \E u \in ShellUrls : ~IsResp(store'[CACHE_NAME(w)][u]) ) =>
          ( /\ \E v \in Workers :
                 v > w /\ wstate[v] = "activating" /\ CACHE_NAME(w) \in toDelete[v]
            /\ ~ExistsIn(cacheNames', CACHE_NAME(w)) )]_vars

\* Worker 2 is activated after worker 1; one of its events failed on the
\* network and another, a GET for "/", was answered with the shell entry of
\* store 2 without a network fetch.
C17_Witness ==
  /\ MaxGen >= 2 /\ MaxEvents >= 2
  /\ wstate[2] = "activated" /\ wstate[1] = "redundant"
  /\ \E i, j \in Events :
       /\ ev[i].w = 2 /\ ev[i].net = NetworkError
       /\ ev[j].w = 2 /\ ev[j].url = APP_SHELL[1] /\ Done(j) /\ ev[j].nNet = 0
       /\ ev[j].result = store[CACHE_NAME(2)][APP_SHELL[1]]
       /\ ev[j].result.payload = ShellPayload(CACHE_NAME(2))

\* C18: the step in which an event gets a cache hit changes no store, and an
\* event answered from the cache never starts a write.  An entry appears or
\* changes only in the install step of a worker or in the put of an event
\* that missed the cache and fetched from the network; an entry disappears
\* only in a step that deletes its whole store from the cache storage.
C18_HitChangesNothing ==
  /\ [](\A j \in Events :
          (ev[j].branch = "cacheFirst" /\ Done(j) /\ ev[j].nNet = 0) =>
            ev[j].write = "none")
  /\ [][/\ \A j \in Events :
            (ev[j].pc = "match" /\ ev'[j].pc = "done") =>
              /\ store' = store /\ cacheNames' = cacheNames
              /\ ev'[j].write = "none"
        /\ store' # store => \A n \in Names : \A u \in Urls :
            /\ (store'[n][u] # store[n][u] /\ IsResp(store'[n][u])) =>
                 \/ \E w \in Workers :
                      wstate[w] = "installing" /\ wstate'[w] = "installed"
                 \/ \E i \in Events :
                      /\ ev[i].write = "put" /\ ev'[i].write = "stored"
                      /\ ev[i].nRead = 1 /\ ev[i].nNet = 1
                      /\ ev[i].url = u /\ store'[n][u] = ev[i].net
            /\ (IsResp(store[n][u]) /\ ~IsResp(store'[n][u])) =>
                 /\ store'[n] = EmptyStore
                 /\ Exists(n) /\ ~ExistsIn(cacheNames', n)
                 /\ \E w \in Workers : wstate[w] = "activating" /\ n \in toDelete[w]]_vars

\* A miss stored a 404 response for /static/app.js; a later event was
\* answered with it from the cache, started no write, and the store still
\* holds the same entry.
C18_Witness ==
  \E i, j \in Events :
    /\ i # j /\ ev[i].w = ev[j].w
    /\ ev[i].url = ScriptUrl /\ ev[i].write = "stored" /\ ev[i].net.status = 404
    /\ ev[j].url = ScriptUrl /\ Done(j) /\ ev[j].nNet = 0 /\ ev[j].write = "none"
    /\ ev[j].result = ev[i].net
    /\ store[CACHE_NAME(ev[j].w)][ScriptUrl] = ev[i].net

\* Event i missed the cache and obtained a response from the network for a
\* same-origin GET to a non-reserved path.
CacheableMiss(i) ==
  /\ ev[i].branch = "cacheFirst" /\ Done(i) /\ IsResp(ev[i].net)
  /\ ShouldCache(ev[i].method, ev[i].url)

\* C19 (as stated): every response obtained on a cache miss for a same-origin
\* GET to a non-reserved path is stored (its write never ends without the
\* entry being stored), and every later cache hit of the same worker for
\* that key returns that response.
C19_MissResponseStoredAndServed ==
  /\ \A i \in Events : CacheableMiss(i) => ev[i].write \notin {"failed", "lost"}
  /\ \A i, j \in Events :
       ( /\ i < j /\ CacheableMiss(i) /\ ev[j].w = ev[i].w
         /\ ev[j].url = ev[i].url /\ ev[j].method = ev[i].method
         /\ Done(j) /\ ev[j].nNet = 0 ) =>
       ev[j].result = ev[i].net

\* C19 (amended): whether a write is started depends only on the request: a
\* response obtained on a cache miss starts a write exactly when the request
\* is a same-origin GET, whatever the status of the response.  A put that
\* resolves stores exactly that response, error status included, under the
\* request's URL; and a cache hit for a URL outside the app shell returns a
\* response that some event obtained for that URL and whose write was
\* stored.
C19_StoreDecisionByRequest ==
  /\ [](\A i \in Events :
          (ev[i].branch = "cacheFirst" /\ Done(i) /\ IsResp(ev[i].net)) =>
            (ev[i].write # "none" <=> ShouldCache(ev[i].method, ev[i].url)))
  /\ [][\A i \in Events :
          /\ (ev[i].write = "put" /\ ev'[i].write = "stored") =>
               store'[CACHE_NAME(ev[i].w)][ev[i].url] = ev[i].net
          /\ (ev[i].pc = "match" /\ ev'[i].pc = "done" /\ ev[i].url \notin ShellUrls) =>
               \E k \in Events :
                 /\ ev[k].url = ev[i].url /\ ev[k].write = "stored"
                 /\ ev'[i].result = ev[k].net]_vars

\* A 404 response to GET /static/app.js was stored under that URL, while a
\* 200 response to a request that is not a same-origin GET started no write.
C19_Witness ==
  \E i, j \in Events :
    /\ CacheableMiss(i) /\ ev[i].net.status = 404 /\ ev[i].write = "stored"
    /\ store[CACHE_NAME(ev[i].w)][ev[i].url] = ev[i].net
    /\ ev[j].branch = "cacheFirst" /\ Done(j) /\ IsResp(ev[j].net)
    /\ ev[j].net.status = 200 /\ ~ShouldCache(ev[j].method, ev[j].url)
    /\ ev[j].write = "none"

====
